---- MODULE Spec2Model ----
(***************************************************************************)
(* Model of src/process_pcap.py: parse_flags and process_tcp_fields.       *)
(*                                                                         *)
(* A text field is a sequence of one-character strings.  A Python int is   *)
(* a TLA+ integer.  A Python float (IEEE-754 binary64) is a record         *)
(*   [k |-> "fin", neg |-> BOOLEAN, m |-> bits, e |-> Int]  value m * 2^e  *)
(*   [k |-> "inf", neg |-> BOOLEAN]      [k |-> "nan"]                     *)
(* where m is a natural number written as its bits, least significant      *)
(* first, with m odd or empty (zero, e = 0), so equal values have equal    *)
(* records.  Arithmetic rounds to 53 significant bits, ties to even.       *)
(***************************************************************************)
EXTENDS Integers, Sequences, FiniteSets, TLC

\* ------------------------------------------------------------------------
\* Natural numbers of any size, as bit sequences (least significant first,
\* no zero bit at the high end; zero is << >>).  The operators are written
\* without recursion over the bits (carry look-ahead) to keep evaluation
\* shallow.

BBit(b, i) == IF i <= Len(b) THEN b[i] ELSE 0

BMaxLen(a, b) == IF Len(a) >= Len(b) THEN Len(a) ELSE Len(b)

\* number of bits up to the highest 1
BLen(b) == IF \A i \in 1..Len(b) : b[i] = 0 THEN 0
           ELSE CHOOSE i \in 1..Len(b) : b[i] = 1 /\ \A j \in (i + 1)..Len(b) : b[j] = 0

BNorm(b) == SubSeq(b, 1, BLen(b))

MaxIntBits == 30

BFromNat(n) == BNorm([i \in 1..MaxIntBits |-> (n \div 2^(i - 1)) % 2])

\* carry into bit i of a + b
BCarry(a, b, i) ==
    \E j \in 1..(i - 1) :
        /\ BBit(a, j) = 1 /\ BBit(b, j) = 1
        /\ \A k \in (j + 1)..(i - 1) : BBit(a, k) = 1 \/ BBit(b, k) = 1

BAdd(a, b) ==
    BNorm([i \in 1..(BMaxLen(a, b) + 1) |->
              (BBit(a, i) + BBit(b, i) + (IF BCarry(a, b, i) THEN 1 ELSE 0)) % 2])

BLt(a, b) ==
    \E i \in 1..BMaxLen(a, b) :
        /\ BBit(a, i) < BBit(b, i)
        /\ \A k \in (i + 1)..BMaxLen(a, b) : BBit(a, k) = BBit(b, k)

\* borrow into bit i of a - b
BBorrow(a, b, i) ==
    \E j \in 1..(i - 1) :
        /\ BBit(a, j) < BBit(b, j)
        /\ \A k \in (j + 1)..(i - 1) : BBit(a, k) <= BBit(b, k)

\* a - b for a >= b
BSub(a, b) ==
    BNorm([i \in 1..Len(a) |->
              (BBit(a, i) - BBit(b, i) - (IF BBorrow(a, b, i) THEN 1 ELSE 0)) % 2])

BShl(b, n) == IF b = << >> THEN << >> ELSE [i \in 1..n |-> 0] \o b

\* 2^j mod d, by repeated squaring (d * d fits an integer)
RECURSIVE Pow2Mod(_, _)
Pow2Mod(j, d) ==
    IF j = 0 THEN 1 % d
    ELSE LET h == Pow2Mod(j \div 2, d)
         IN  (h * h * (IF j % 2 = 1 THEN 2 ELSE 1)) % d

\* floor(n * 2^sh / d) and whether the division left a remainder, for
\* integers n >= 0 and d > 0: the integer part n \div d, followed by sh
\* bits of the binary expansion of (n % d) / d.
BScaledDiv(n, d, sh) ==
    LET r0 == n % d
    IN  [q |-> BNorm([p \in 1..sh |->
                        (2 * ((r0 * Pow2Mod(sh - p, d)) % d)) \div d]
                     \o BFromNat(n \div d)),
         rem |-> (r0 * Pow2Mod(sh, d)) % d # 0]

\* ------------------------------------------------------------------------
\* IEEE-754 binary64 values.

MantBits == 53

FNaN == [k |-> "nan"]
FInf(neg) == [k |-> "inf", neg |-> neg]

\* number of zero bits below the lowest 1 of b # << >>
LowZeros(b) == (CHOOSE i \in 1..Len(b) : b[i] = 1 /\ \A j \in 1..(i - 1) : b[j] = 0) - 1

\* the canonical record of (-1)^neg * m * 2^e
FCanon(neg, m, e) ==
    IF m = << >> THEN [k |-> "fin", neg |-> neg, m |-> << >>, e |-> 0]
    ELSE LET z == LowZeros(m)
         IN  [k |-> "fin", neg |-> neg, m |-> SubSeq(m, z + 1, Len(m)), e |-> e + z]

\* (-1)^neg * (m + s) * 2^e with 0 <= s < 1 (sticky = s > 0), rounded to
\* MantBits significant bits, ties to even.  Exponent range is not modelled:
\* the values the model handles are far from overflow and underflow.
FRound(neg, m, e, sticky) ==
    IF Len(m) <= MantBits THEN FCanon(neg, m, e)
    ELSE LET d     == Len(m) - MantBits
             kept  == SubSeq(m, d + 1, Len(m))
             guard == m[d]
             rest  == sticky \/ \E i \in 1..(d - 1) : m[i] = 1
             up    == guard = 1 /\ (rest \/ kept[1] = 1)
         IN  FCanon(neg, IF up THEN BAdd(kept, <<1>>) ELSE kept, e + d)

\* a small integer as a float
FInt(n) == FRound(n < 0, BFromNat(IF n < 0 THEN -n ELSE n), 0, FALSE)

\* m * 2^e for a small natural m, for writing expected values
FDyadic(m, e) == FCanon(FALSE, BFromNat(m), e)

FMin(a, b) == IF a <= b THEN a ELSE b

\* x + y on finite values
FAddFin(x, y) ==
    LET e  == IF x.m = << >> THEN y.e ELSE IF y.m = << >> THEN x.e ELSE FMin(x.e, y.e)
        mx == BShl(x.m, x.e - e)
        my == BShl(y.m, y.e - e)
    IN  IF x.neg = y.neg THEN FRound(x.neg, BAdd(mx, my), e, FALSE)
        ELSE IF mx = my THEN FCanon(FALSE, << >>, 0)
        ELSE IF BLt(mx, my) THEN FRound(y.neg, BSub(my, mx), e, FALSE)
        ELSE FRound(x.neg, BSub(mx, my), e, FALSE)

\* Python float.__add__
FAdd(x, y) ==
    IF x.k = "nan" \/ y.k = "nan" THEN FNaN
    ELSE IF x.k = "inf" /\ y.k = "inf" THEN IF x.neg = y.neg THEN x ELSE FNaN
    ELSE IF x.k = "inf" THEN x
    ELSE IF y.k = "inf" THEN y
    ELSE FAddFin(x, y)

FNeg(x) == IF x.k = "nan" THEN x ELSE [x EXCEPT !.neg = ~x.neg]

\* Python float.__sub__
FSub(x, y) == FAdd(x, FNeg(y))

\* Python's < and <= on floats (every comparison with nan is False)

\* |x| < |y| on finite values
FMagLt(x, y) ==
    LET e == FMin(x.e, y.e)
    IN  BLt(BShl(x.m, x.e - e), BShl(y.m, y.e - e))

FLtFin(x, y) ==
    IF x.neg # y.neg THEN x.neg /\ ~(x.m = << >> /\ y.m = << >>)
    ELSE IF x.neg THEN FMagLt(y, x)
    ELSE FMagLt(x, y)

FLt(x, y) ==
    IF x.k = "nan" \/ y.k = "nan" THEN FALSE
    ELSE IF x.k = "inf" THEN x.neg /\ ~(y.k = "inf" /\ y.neg)
    ELSE IF y.k = "inf" THEN ~y.neg
    ELSE FLtFin(x, y)

FLe(x, y) == x.k # "nan" /\ y.k # "nan" /\ ~FLt(y, x)

\* ------------------------------------------------------------------------
\* Text to number conversions.  The alphabet of the modelled fields is
\* lower-case ASCII letters, digits, "+", "-" and "."; white space, "_",
\* upper case and exponents do not occur in them.  A timestamp field has at
\* most 9 digits, at most 4 of them after the point.

DigitVal == ("0" :> 0) @@ ("1" :> 1) @@ ("2" :> 2) @@ ("3" :> 3) @@ ("4" :> 4)
            @@ ("5" :> 5) @@ ("6" :> 6) @@ ("7" :> 7) @@ ("8" :> 8) @@ ("9" :> 9)
            @@ ("a" :> 10) @@ ("b" :> 11) @@ ("c" :> 12) @@ ("d" :> 13)
            @@ ("e" :> 14) @@ ("f" :> 15)

ValueError == [ok |-> FALSE]
Value(v) == [ok |-> TRUE, v |-> v]

HasSign(s) == s # << >> /\ s[1] \in {"+", "-"}
Unsigned(s) == IF HasSign(s) THEN Tail(s) ELSE s
IsNegative(s) == s # << >> /\ s[1] = "-"

AllIn(s, base) == \A i \in 1..Len(s) : s[i] \in DOMAIN DigitVal /\ DigitVal[s[i]] < base

RECURSIVE DigitsToInt(_, _)
DigitsToInt(s, base) ==
    IF s = << >> THEN 0
    ELSE DigitsToInt(SubSeq(s, 1, Len(s) - 1), base) * base + DigitVal[s[Len(s)]]

\* int(text, 0): the base is chosen by the prefix; a decimal literal has no
\* leading zero unless it is all zeros.
PyInt(text) ==
    LET u    == Unsigned(text)
        sgn  == IF IsNegative(text) THEN -1 ELSE 1
        pre  == IF Len(u) >= 2 THEN SubSeq(u, 1, 2) ELSE << >>
        body == SubSeq(u, 3, Len(u))
        base == IF pre = <<"0", "x">> THEN 16
                ELSE IF pre = <<"0", "o">> THEN 8
                ELSE IF pre = <<"0", "b">> THEN 2
                ELSE 10
    IN  IF base # 10
        THEN IF body # << >> /\ AllIn(body, base)
             THEN Value(sgn * DigitsToInt(body, base)) ELSE ValueError
        ELSE IF u # << >> /\ AllIn(u, 10)
                /\ (u[1] # "0" \/ \A i \in 1..Len(u) : u[i] = "0")
             THEN Value(sgn * DigitsToInt(u, 10)) ELSE ValueError

\* Python's a & b for b >= 0 (a negative a is in two's complement)
RECURSIVE BitAnd(_, _)
BitAnd(a, b) ==
    IF b = 0 THEN 0
    ELSE (a % 2) * (b % 2) + 2 * BitAnd(a \div 2, b \div 2)

\* the float nearest to n / 10^k
FDecimal(neg, n, k) ==
    LET sh == MantBits + 2 + 14
        qr == BScaledDiv(n, 10^k, sh)
    IN  FRound(neg, qr.q, -sh, qr.rem)

DotsOf(s) == {i \in 1..Len(s) : s[i] = "."}

\* float(text)
PyFloat(text) ==
    LET u    == Unsigned(text)
        neg  == IsNegative(text)
        dots == DotsOf(u)
        dot  == IF dots = {} THEN Len(u) + 1 ELSE CHOOSE i \in dots : TRUE
        ds   == SubSeq(u, 1, dot - 1) \o SubSeq(u, dot + 1, Len(u))
    IN  IF u = <<"n", "a", "n">> THEN Value(FNaN)
        ELSE IF u = <<"i", "n", "f">> \/ u = <<"i", "n", "f", "i", "n", "i", "t", "y">>
        THEN Value(FInf(neg))
        ELSE IF Cardinality(dots) <= 1 /\ ds # << >> /\ AllIn(ds, 10)
        THEN Value(FDecimal(neg, DigitsToInt(ds, 10), Len(ds) - (dot - 1)))
        ELSE ValueError

\* ------------------------------------------------------------------------
\* parse_flags

\* parse_flags with the masks of SYN and FIN exchanged
parse_flags_SwappedBits(text) ==
    LET r == PyInt(text)
    IN  IF ~r.ok THEN {}
        ELSE (IF BitAnd(r.v, 1) # 0 THEN {"SYN"} ELSE {})
             \cup (IF BitAnd(r.v, 16) # 0 THEN {"ACK"} ELSE {})
             \cup (IF BitAnd(r.v, 2) # 0 THEN {"FIN"} ELSE {})
             \cup (IF BitAnd(r.v, 4) # 0 THEN {"RST"} ELSE {})

parse_flags(text) ==
    LET r == PyInt(text)
    IN  IF ~r.ok THEN {}
        ELSE LET flags_int == r.v
             IN  (IF BitAnd(flags_int, 2) # 0 THEN {"SYN"} ELSE {})
                 \cup (IF BitAnd(flags_int, 16) # 0 THEN {"ACK"} ELSE {})
                 \cup (IF BitAnd(flags_int, 1) # 0 THEN {"FIN"} ELSE {})
                 \cup (IF BitAnd(flags_int, 4) # 0 THEN {"RST"} ELSE {})

\* ------------------------------------------------------------------------
\* process_tcp_fields

VARIABLES
    rows,             \* the rows the csv reader has yielded so far
    pc,               \* "reading", "returned", "plotted" or "raised" (ValueError)
    connections,      \* conn_id -> dict with keys "start" and, once closed, "end"
    order,            \* the keys of connections in insertion order
    end_cause,        \* conn_id -> which DEBUG line reported the end
    connection_data,  \* the returned list of <<start, duration>>, which
                      \* plot_connection_durations then sorts in place
    flags_str,        \* argument of a parse_flags call
    flag_set,         \* its result
    fpc,              \* "call" or "returned"
    total_bytes,             \* arguments of a send_data_at_rate call
    rate_bytes_per_second,
    disable_nagle,
    disable_delayed_ack,
    bytes_sent,              \* its local variable
    chunk,                   \* <<i, j>> when the last chunk sent is data[i:j]
    client_socket,           \* "none", "open" or "closed"
    spc                      \* "idle", "call", "loop", "done" (returned after
                             \* the loop), "failed" (returned after the
                             \* handler of line 55) or "raised" (left by an
                             \* exception)

vars == <<rows, pc, connections, order, end_cause, connection_data,
          flags_str, flag_set, fpc,
          total_bytes, rate_bytes_per_second, disable_nagle, disable_delayed_ack,
          bytes_sent, chunk, client_socket, spc>>

passVars == <<rows, pc, connections, order, end_cause, connection_data>>
flagVars == <<flags_str, flag_set, fpc>>
sendArgs == <<total_bytes, rate_bytes_per_second, disable_nagle, disable_delayed_ack>>
sendVars == <<sendArgs, bytes_sent, chunk, client_socket, spc>>

\* send_data_at_rate is not running
SendIdle ==
    /\ total_bytes = 0
    /\ rate_bytes_per_second = 0
    /\ disable_nagle = FALSE
    /\ disable_delayed_ack = FALSE
    /\ bytes_sent = 0
    /\ chunk = << >>
    /\ client_socket = "none"
    /\ spc = "idle"

EmptyDict == [x \in {} |-> x]

\* Bounds
MaxRows == 3
MaxFlagLen == 4

\* The text fields of the modelled rows
Txt3 == <<"3", ".", "0">>
Txt5 == <<"5", ".", "0">>
Txt7 == <<"7", ".", "0">>
Txt10 == <<"1", "0", ".", "0">>
Txt12_5 == <<"1", "2", ".", "5">>
Txt28_2 == <<"2", "8", ".", "2">>
TxtBad == <<"b", "a", "d">>
TxtNan == <<"n", "a", "n">>
TxtInf == <<"i", "n", "f">>

FlagsSyn == <<"0", "x", "0", "2">>
FlagsSynAck == <<"0", "x", "1", "2">>
FlagsFinAck == <<"0", "x", "1", "1">>
FlagsRst == <<"0", "x", "0", "4">>
FlagsRstFinAck == <<"0", "x", "1", "5">>
FlagsAbc == <<"a", "b", "c">>
FlagsEmpty == << >>

\* two connection identities, one the reverse direction of the other
K == <<<<"a">>, <<"b">>, <<"1">>, <<"2">>>>
KRev == <<<<"b">>, <<"a">>, <<"2">>, <<"1">>>>

Row(t, c, f) == <<t>> \o c \o <<f>>

RowSet ==
    { << >>,
      <<Txt5, <<"a">>, <<"b">>>>,
      Row(Txt5, K, FlagsRst) \o <<<<"x">>>>,
      Row(TxtBad, K, FlagsRst),
      Row(Txt3, K, FlagsSyn),
      Row(Txt5, K, FlagsSyn),
      Row(Txt7, K, FlagsRst),
      Row(Txt10, K, FlagsSyn),
      Row(Txt10, K, FlagsSynAck),
      Row(Txt12_5, K, FlagsFinAck),
      Row(Txt5, K, FlagsRstFinAck),
      Row(Txt28_2, K, FlagsSyn),
      Row(Txt7, KRev, FlagsRst),
      Row(Txt5, KRev, FlagsFinAck),
      Row(Txt7, K, FlagsAbc),
      Row(Txt3, KRev, FlagsEmpty),
      Row(TxtNan, K, FlagsSyn),
      Row(TxtInf, KRev, FlagsRst) }

\* line 42
TooShort(row) == Len(row) < 6

\* line 46: unpacking into six names raises ValueError unless the row has
\* exactly six fields
UnpackFails(row) == Len(row) # 6

\* ConnId that does not tell the two directions of a flow apart
ConnId_Undirected(row) == <<{row[2], row[3]}, {row[4], row[5]}>>

\* line 50
ConnId(row) == <<row[2], row[3], row[4], row[5]>>

\* RecordStart without the "not in connections" test: every record of an
\* identity overwrites start
RecordStart_Overwrite(conns, conn_id, time_epoch) ==
    IF conn_id \notin DOMAIN conns
    THEN conns @@ (conn_id :> ("start" :> time_epoch))
    ELSE [conns EXCEPT ![conn_id]["start"] = time_epoch]

\* lines 59-60
RecordStart(conns, conn_id, time_epoch) ==
    IF conn_id \notin DOMAIN conns
    THEN conns @@ (conn_id :> ("start" :> time_epoch))
    ELSE conns

\* RstEnds with the "end not in" test inverted: an RST moves an end
\* already there and never sets the first one
RstEnds_OnlyIfEnded(conns, conn_id, flags) ==
    "RST" \in flags /\ "end" \in DOMAIN conns[conn_id]

\* line 66
RstEnds(conns, conn_id, flags) ==
    "RST" \in flags /\ "end" \notin DOMAIN conns[conn_id]

\* FinAckEnds without the "end not in" test: a later FIN+ACK moves end
FinAckEnds_Unguarded(conns, conn_id, flags) ==
    "FIN" \in flags /\ "ACK" \in flags

\* line 72
FinAckEnds(conns, conn_id, flags) ==
    "FIN" \in flags /\ "ACK" \in flags /\ "end" \notin DOMAIN conns[conn_id]

\* lines 67 and 73: the assignment (it would replace an end already there)
RecordEnd(conns, conn_id, time_epoch) ==
    [conns EXCEPT ![conn_id] = ("end" :> time_epoch) @@ @]

\* lines 58-75: the dict after one record with a parsed timestamp
Track(conns, conn_id, time_epoch, flags) ==
    LET c1 == RecordStart(conns, conn_id, time_epoch)
        c2 == IF RstEnds(c1, conn_id, flags)
              THEN RecordEnd(c1, conn_id, time_epoch) ELSE c1
        c3 == IF FinAckEnds(c2, conn_id, flags)
              THEN RecordEnd(c2, conn_id, time_epoch) ELSE c2
    IN  c3

\* Cause with the FIN+ACK test placed before the RST test
Cause_FinAckFirst(conns, conn_id, flags) ==
    IF FinAckEnds(conns, conn_id, flags) THEN "GRACEFUL"
    ELSE IF RstEnds(conns, conn_id, flags) THEN "RESET"
    ELSE "NONE"

\* lines 66-75: the DEBUG line that reports the end, if this record sets it
\* (conns is the dict after lines 59-60)
Cause(conns, conn_id, flags) ==
    IF RstEnds(conns, conn_id, flags) THEN "RESET"
    ELSE IF FinAckEnds(conns, conn_id, flags) THEN "GRACEFUL"
    ELSE "NONE"

\* Interval with end in place of the duration
Interval_EndAsDuration(times) ==
    LET start == times["start"]
        end   == IF "end" \in DOMAIN times THEN times["end"]
                 ELSE FAdd(start, FInt(100))
    IN  <<start, end>>

\* lines 81-84
Interval(times) ==
    LET start == times["start"]
        end   == IF "end" \in DOMAIN times THEN times["end"]
                 ELSE FAdd(start, FInt(100))
    IN  <<start, FSub(end, start)>>

\* ExportFrom that keeps only the intervals of positive duration
RECURSIVE ExportFrom_DropNonPositive(_, _, _)
ExportFrom_DropNonPositive(conns, keys, n) ==
    IF n > Len(keys) THEN << >>
    ELSE LET iv == Interval(conns[keys[n]])
             d  == iv[2]
         IN  (IF d.k = "nan" \/ d.neg \/ (d.k = "fin" /\ d.m = << >>) THEN << >>
              ELSE <<iv>>)
             \o ExportFrom_DropNonPositive(conns, keys, n + 1)

\* lines 77-86, over the keys from position n on
RECURSIVE ExportFrom(_, _, _)
ExportFrom(conns, keys, n) ==
    IF n > Len(keys) THEN << >>
    ELSE (IF "start" \notin DOMAIN conns[keys[n]] THEN << >>
          ELSE <<Interval(conns[keys[n]])>>)
         \o ExportFrom(conns, keys, n + 1)

Init ==
    /\ rows = << >>
    /\ pc = "reading"
    /\ connections = EmptyDict
    /\ order = << >>
    /\ end_cause = EmptyDict
    /\ connection_data = << >>
    /\ flags_str = << >>
    /\ flag_set = {}
    /\ fpc = "returned"
    /\ SendIdle

\* lines 42-45: a row with fewer than six fields is skipped
SkipShortRow(row) ==
    /\ pc = "reading" /\ Len(rows) < MaxRows
    /\ TooShort(row)
    /\ rows' = Append(rows, row)
    /\ UNCHANGED <<pc, connections, order, end_cause, connection_data, flagVars, sendVars>>

\* line 46: a row with more than six fields does not unpack; the ValueError
\* leaves process_tcp_fields
RaiseUnpack(row) ==
    /\ pc = "reading" /\ Len(rows) < MaxRows
    /\ ~TooShort(row) /\ UnpackFails(row)
    /\ rows' = Append(rows, row)
    /\ pc' = "raised"
    /\ UNCHANGED <<connections, order, end_cause, connection_data, flagVars, sendVars>>

\* SkipBadTime that has already looked the identity up in the defaultdict,
\* which creates its entry
SkipBadTime_Touch(row) ==
    /\ pc = "reading" /\ Len(rows) < MaxRows
    /\ ~TooShort(row) /\ ~UnpackFails(row)
    /\ ~PyFloat(row[1]).ok
    /\ rows' = Append(rows, row)
    /\ connections' = IF ConnId(row) \in DOMAIN connections THEN connections
                      ELSE connections @@ (ConnId(row) :> EmptyDict)
    /\ UNCHANGED <<pc, order, end_cause, connection_data, flagVars, sendVars>>

\* lines 51-56: a timestamp float() rejects
SkipBadTime(row) ==
    /\ pc = "reading" /\ Len(rows) < MaxRows
    /\ ~TooShort(row) /\ ~UnpackFails(row)
    /\ ~PyFloat(row[1]).ok
    /\ rows' = Append(rows, row)
    /\ UNCHANGED <<pc, connections, order, end_cause, connection_data, flagVars, sendVars>>

\* ApplyRecord that skips a record whose flags int() rejects
ApplyRecord_DiscardBadFlags(row) ==
    /\ pc = "reading" /\ Len(rows) < MaxRows
    /\ ~TooShort(row) /\ ~UnpackFails(row)
    /\ PyFloat(row[1]).ok
    /\ LET time_epoch == PyFloat(row[1]).v
           flags      == parse_flags(row[6])
           conn_id    == ConnId(row)
           cause      == Cause(RecordStart(connections, conn_id, time_epoch), conn_id, flags)
       IN  IF ~PyInt(row[6]).ok
           THEN UNCHANGED <<connections, order, end_cause>>
           ELSE /\ connections' = Track(connections, conn_id, time_epoch, flags)
                /\ order' = IF conn_id \in DOMAIN connections THEN order
                            ELSE Append(order, conn_id)
                /\ end_cause' = IF cause = "NONE" THEN end_cause
                                ELSE (conn_id :> cause) @@ end_cause
    /\ rows' = Append(rows, row)
    /\ UNCHANGED <<pc, connection_data, flagVars, sendVars>>

\* lines 46-75: a record is applied
ApplyRecord(row) ==
    /\ pc = "reading" /\ Len(rows) < MaxRows
    /\ ~TooShort(row) /\ ~UnpackFails(row)
    /\ PyFloat(row[1]).ok
    /\ LET time_epoch == PyFloat(row[1]).v
           flags      == parse_flags(row[6])
           conn_id    == ConnId(row)
           cause      == Cause(RecordStart(connections, conn_id, time_epoch), conn_id, flags)
       IN  /\ connections' = Track(connections, conn_id, time_epoch, flags)
           /\ order' = IF conn_id \in DOMAIN connections THEN order
                       ELSE Append(order, conn_id)
           /\ end_cause' = IF cause = "NONE" THEN end_cause
                           ELSE (conn_id :> cause) @@ end_cause
    /\ rows' = Append(rows, row)
    /\ UNCHANGED <<pc, connection_data, flagVars, sendVars>>

\* lines 77-86: the reader is exhausted; the intervals are returned
Export ==
    /\ pc = "reading"
    /\ connection_data' = ExportFrom(connections, order, 1)
    /\ pc' = "returned"
    /\ UNCHANGED <<rows, connections, order, end_cause, flagVars, sendVars>>

\* list.sort(key=lambda x: x[0]) places x into a list already sorted: the
\* sort is stable and compares keys with <, so x goes right after the last
\* entry whose key x's key is not less than.  (The lists of the model have
\* at most two entries, one for each direction of the flow.)
InsertByStart(sorted, x) ==
    LET stay == {i \in 1..Len(sorted) :
                    \E j \in i..Len(sorted) : ~FLt(x[1], sorted[j][1])}
        p    == Cardinality(stay)
    IN  SubSeq(sorted, 1, p) \o <<x>> \o SubSeq(sorted, p + 1, Len(sorted))

\* line 94 on the first n entries of data
RECURSIVE SortByStart(_, _)
SortByStart(data, n) ==
    IF n = 0 THEN << >>
    ELSE InsertByStart(SortByStart(data, n - 1), data[n])

\* lines 88-109 as __main__ calls it (line 129) on the list returned: an
\* empty list is reported and left; otherwise the list is sorted in place
\* by start; the figure drawn from it changes nothing else
Plot ==
    /\ pc = "returned"
    /\ connection_data' = IF connection_data = << >> THEN connection_data
                          ELSE SortByStart(connection_data, Len(connection_data))
    /\ pc' = "plotted"
    /\ UNCHANGED <<rows, connections, order, end_cause, flagVars, sendVars>>

Next ==
    \/ \E row \in RowSet : SkipShortRow(row)
    \/ \E row \in RowSet : RaiseUnpack(row)
    \/ \E row \in RowSet : SkipBadTime(row)
    \/ \E row \in RowSet : ApplyRecord(row)
    \/ Export
    \/ Plot

Spec == Init /\ [][Next]_vars

\* ------------------------------------------------------------------------
\* parse_flags called on its own, on every text over FlagChars of at most
\* MaxFlagLen characters

FlagChars == {"0", "1", "2", "4", "8", "x", "a", "b", "c", "-"}

FlagTexts == UNION {[1..n -> FlagChars] : n \in 0..MaxFlagLen}

InitFlags ==
    /\ rows = << >>
    /\ pc = "reading"
    /\ connections = EmptyDict
    /\ order = << >>
    /\ end_cause = EmptyDict
    /\ connection_data = << >>
    /\ flags_str \in FlagTexts
    /\ flag_set = {}
    /\ fpc = "call"
    /\ SendIdle

\* lines 9-28
ParseFlags ==
    /\ fpc = "call"
    /\ flag_set' = parse_flags(flags_str)
    /\ fpc' = "returned"
    /\ UNCHANGED <<flags_str, passVars, sendVars>>

NextFlags == ParseFlags

SpecFlags == InitFlags /\ [][NextFlags]_vars

\* ------------------------------------------------------------------------
\* The records read so far, as the properties below speak of them

\* float() of every timestamp text of RowSet, and int(text, 0) and
\* parse_flags of every flags text, computed once
TimeTexts == {row[1] : row \in {r \in RowSet : Len(r) >= 1}}
FloatOf == [t \in TimeTexts |-> PyFloat(t)]
FlagFields == {row[6] : row \in {r \in RowSet : Len(r) >= 6}}
IntOf == [t \in FlagFields |-> PyInt(t)]
FlagsOf == [t \in FlagFields |-> parse_flags(t)]

\* a valid record: at least six fields and a timestamp float() accepts
ValidRecord(row) == Len(row) >= 6 /\ FloatOf[row[1]].ok

RecordsOf(c) == {i \in 1..Len(rows) : ValidRecord(rows[i]) /\ ConnId(rows[i]) = c}

Identities == {ConnId(rows[i]) : i \in {j \in 1..Len(rows) : ValidRecord(rows[j])}}

Least(S) == CHOOSE i \in S : \A j \in S : i <= j

TimeAt(i) == FloatOf[rows[i][1]].v

FlagsAt(i) == FlagsOf[rows[i][6]]

IsClose(flags) == "RST" \in flags \/ ("FIN" \in flags /\ "ACK" \in flags)

ClosesOf(c) == {i \in RecordsOf(c) : IsClose(FlagsAt(i))}

\* the pass is alive or has returned: its mapping exists
Alive == pc # "raised"

\* ------------------------------------------------------------------------
\* C1: every identity in the mapping, and so in the result, has start equal
\* to the timestamp of the first valid record of that identity in
\* processing order, and a start once set is never changed by a later
\* record of that or any other identity.
C1_StartSet ==
    /\ \A c \in DOMAIN connections :
          /\ RecordsOf(c) # {}
          /\ connections[c]["start"] = TimeAt(Least(RecordsOf(c)))
    /\ pc = "returned" =>
          /\ Len(connection_data) = Len(order)
          /\ \A n \in 1..Len(order) :
                connection_data[n][1] = TimeAt(Least(RecordsOf(order[n])))

C1_StartKept ==
    \A c \in DOMAIN connections :
        /\ c \in DOMAIN connections'
        /\ connections'[c]["start"] = connections[c]["start"]

C1_StartIsFirstValid == []C1_StartSet /\ [][C1_StartKept]_vars

\* two identities are tracked and one of them has had a later record with
\* another timestamp
C1_Witness ==
    /\ pc = "returned"
    /\ Cardinality(DOMAIN connections) = 2
    /\ \E c \in DOMAIN connections : \E i \in RecordsOf(c) :
          TimeAt(i) # connections[c]["start"]

\* C2: first close wins: end is absent until the first record of the
\* identity that carries RST or FIN and ACK, is that record's timestamp from
\* then on, and once end is set no later record changes the identity's
\* entry (no second close, no reopening by a SYN).
C2_EndSet ==
    Alive =>
        \A c \in DOMAIN connections :
            IF ClosesOf(c) = {} THEN "end" \notin DOMAIN connections[c]
            ELSE /\ "end" \in DOMAIN connections[c]
                 /\ connections[c]["end"] = TimeAt(Least(ClosesOf(c)))

C2_EndKept ==
    \A c \in DOMAIN connections :
        "end" \in DOMAIN connections[c] =>
            /\ c \in DOMAIN connections'
            /\ connections'[c] = connections[c]
            /\ c \in DOMAIN end_cause /\ c \in DOMAIN end_cause'
            /\ end_cause'[c] = end_cause[c]

C2_FirstCloseWins == []C2_EndSet /\ [][C2_EndKept]_vars

\* an RST at 7.0 was followed by a FIN+ACK at 12.5 and end is still 7.0
C2_Witness ==
    /\ rows = <<Row(Txt7, K, FlagsRst), Row(Txt12_5, K, FlagsFinAck)>>
    /\ connections[K]["end"] = FInt(7)

\* C3: when the record that closes an identity carries RST together with
\* FIN and ACK, the close is reported as RESET and end is that record's
\* timestamp.
C3_ResetWinsTie ==
    Alive =>
        \A c \in DOMAIN connections :
            (ClosesOf(c) # {}
             /\ {"RST", "FIN", "ACK"} \subseteq FlagsAt(Least(ClosesOf(c))))
            => /\ c \in DOMAIN end_cause /\ end_cause[c] = "RESET"
               /\ connections[c]["end"] = TimeAt(Least(ClosesOf(c)))

\* an open identity was closed by a record carrying RST, FIN and ACK
C3_Witness ==
    /\ rows = <<Row(Txt3, K, FlagsSyn), Row(Txt5, K, FlagsRstFinAck)>>
    /\ end_cause[K] = "RESET"
    /\ connections[K]["end"] = FInt(5)

\* the row read by the step, when the step reads one
LastRow == rows'[Len(rows')]
ReadsRow == rows' # rows

\* the start of the n-th identity, from the records
StartOf(c) == TimeAt(Least(RecordsOf(c)))
EndOf(c) == TimeAt(Least(ClosesOf(c)))

\* C4: an identity with a valid record and no record carrying RST or FIN
\* and ACK has no end when the stream has been processed, and is exported
\* as (start, exactly 100.0).  Stated for finite start values.
C4_OpenIsExactly100 ==
    pc = "returned" =>
        \A n \in 1..Len(order) :
            (ClosesOf(order[n]) = {} /\ StartOf(order[n]).k = "fin")
            => /\ "end" \notin DOMAIN connections[order[n]]
               /\ connection_data[n] = <<StartOf(order[n]), FInt(100)>>

\* C5: an identity whose end is set is exported as (start, end - start);
\* SYN at 10.0, SYN,ACK at 10.0, FIN,ACK at 12.5 give (10.0, 2.5) with
\* cause GRACEFUL, and SYN at 5.0, RST at 7.0 give (5.0, 2.0) with cause
\* RESET.
C5_ClosedInterval ==
    pc = "returned" =>
        /\ \A n \in 1..Len(order) :
              ClosesOf(order[n]) # {} =>
                  /\ "end" \in DOMAIN connections[order[n]]
                  /\ connection_data[n] =
                        <<StartOf(order[n]), FSub(EndOf(order[n]), StartOf(order[n]))>>
        /\ rows = <<Row(Txt10, K, FlagsSyn), Row(Txt10, K, FlagsSynAck),
                    Row(Txt12_5, K, FlagsFinAck)>>
              => /\ connection_data = <<<<FInt(10), FDyadic(5, -1)>>>>
                 /\ end_cause[K] = "GRACEFUL"
        /\ rows = <<Row(Txt5, K, FlagsSyn), Row(Txt7, K, FlagsRst)>>
              => /\ connection_data = <<<<FInt(5), FInt(2)>>>>
                 /\ end_cause[K] = "RESET"

\* the first scenario has been processed and exported
C5_Witness ==
    /\ pc = "returned"
    /\ rows = <<Row(Txt10, K, FlagsSyn), Row(Txt10, K, FlagsSynAck),
                Row(Txt12_5, K, FlagsFinAck)>>
    /\ connection_data = <<<<FInt(10), FDyadic(5, -1)>>>>

\* C6: the returned list has exactly one entry for each identity that has
\* a valid record, whatever the sign of its duration.
C6_OneEntryPerIdentity ==
    pc = "returned" =>
        /\ Len(connection_data) = Cardinality(Identities)
        /\ Len(order) = Cardinality(Identities)
        /\ {order[n] : n \in 1..Len(order)} = Identities
        /\ \A n \in 1..Len(order) : connection_data[n][1] = StartOf(order[n])

\* an identity closed by a record older than its start is exported with
\* its negative duration
C6_Witness ==
    /\ pc = "returned"
    /\ rows = <<Row(Txt10, K, FlagsSyn), Row(Txt7, K, FlagsRst)>>
    /\ connection_data = <<<<FInt(10), FInt(-3)>>>>

\* C7: a record with fewer than six fields, and a six-field record whose
\* timestamp float() rejects, leaves the mapping exactly as it was and the
\* pass goes on to the next record.
C7_Skipped ==
    (ReadsRow /\ (Len(LastRow) < 6 \/ (Len(LastRow) = 6 /\ ~FloatOf[LastRow[1]].ok)))
    => /\ connections' = connections
       /\ order' = order
       /\ end_cause' = end_cause
       /\ pc' = "reading"

C7_MalformedSkipped == [][C7_Skipped]_vars

\* a three-field row and a row with timestamp "bad" came after a record of
\* K and the mapping holds only K's start
C7_Witness ==
    /\ rows = <<Row(Txt3, K, FlagsSyn), <<Txt5, <<"a">>, <<"b">>>>,
                Row(TxtBad, K, FlagsRst)>>
    /\ connections = (K :> ("start" :> FInt(3)))
    /\ pc = "reading"

\* C8: process_tcp_fields never raises, whatever the number of fields of a
\* record.
C8_NeverRaises == pc # "raised"

\* a record of six fields with a valid timestamp whose flags int() rejects
BadFlagsRecord(row) == Len(row) = 6 /\ FloatOf[row[1]].ok /\ ~IntOf[row[6]].ok

\* C9 as claimed: a record whose flags encoding is malformed is discarded:
\* it creates no entry and sets no start.
C9_Discarded ==
    (ReadsRow /\ BadFlagsRecord(LastRow))
    => connections' = connections /\ order' = order

C9_MalformedFlagsDiscarded == [][C9_Discarded]_vars

\* C9 amended: a record whose flags encoding is malformed is applied with
\* the empty flag set: it creates the entry and sets start when its identity
\* is new, never sets end, and an identity seen only in such records is
\* exported as open.
C9_AppliedOpen ==
    (ReadsRow /\ BadFlagsRecord(LastRow))
    => /\ connections' = IF ConnId(LastRow) \in DOMAIN connections THEN connections
                          ELSE connections
                               @@ (ConnId(LastRow) :> ("start" :> FloatOf[LastRow[1]].v))
       /\ end_cause' = end_cause
       /\ pc' = "reading"

C9_OnlyBadFlagsExported ==
    pc = "returned" =>
        \A n \in 1..Len(order) :
            (\A i \in RecordsOf(order[n]) : BadFlagsRecord(rows[i]))
            => /\ "end" \notin DOMAIN connections[order[n]]
               /\ connection_data[n] =
                     <<StartOf(order[n]),
                       FSub(FAdd(StartOf(order[n]), FInt(100)), StartOf(order[n]))>>

C9_MalformedFlagsOpen == []C9_OnlyBadFlagsExported /\ [][C9_AppliedOpen]_vars

\* the identity seen only in a record with empty flags is in the result
C9_Witness ==
    /\ pc = "returned"
    /\ rows = <<Row(Txt3, KRev, FlagsEmpty)>>
    /\ connection_data = <<<<FInt(3), FInt(100)>>>>

\* ------------------------------------------------------------------------
\* Integer texts, written from the number to the text

HexDigits == <<"0", "1", "2", "3", "4", "5", "6", "7", "8", "9",
               "a", "b", "c", "d", "e", "f">>

DecChars == {HexDigits[i] : i \in 1..10}
HexChars == {HexDigits[i] : i \in 1..16}

\* the digits of n >= 0 in the base, without leading zeros
RECURSIVE Numeral(_, _)
Numeral(n, base) ==
    IF n < base THEN <<HexDigits[n + 1]>>
    ELSE Numeral(n \div base, base) \o <<HexDigits[(n % base) + 1]>>

ZeroPad(s, width) == [i \in 1..(width - Len(s)) |-> "0"] \o s

\* a decimal integer: an optional "-", then digits with no leading zero
IsDecimalText(s) ==
    LET u == IF s # << >> /\ s[1] = "-" THEN Tail(s) ELSE s
    IN  /\ u # << >>
        /\ \A i \in 1..Len(u) : u[i] \in DecChars
        /\ (Len(u) = 1 \/ u[1] # "0")

\* a 0x-prefixed hexadecimal integer
IsHexText(s) ==
    /\ Len(s) >= 3 /\ s[1] = "0" /\ s[2] = "x"
    /\ \A i \in 3..Len(s) : s[i] \in HexChars

\* s is the text of n
Denotes(s, n) ==
    IF IsHexText(s)
    THEN n >= 0 /\ SubSeq(s, 3, Len(s)) = ZeroPad(Numeral(n, 16), Len(s) - 2)
    ELSE IF s[1] = "-" THEN n <= 0 /\ Tail(s) = Numeral(-n, 10)
    ELSE n >= 0 /\ s = Numeral(n, 10)

\* the names whose bit is set in n
BitNames(n) ==
    {f \in {"SYN", "ACK", "FIN", "RST"} :
        \/ f = "FIN" /\ n % 2 = 1
        \/ f = "SYN" /\ (n \div 2) % 2 = 1
        \/ f = "RST" /\ (n \div 4) % 2 = 1
        \/ f = "ACK" /\ (n \div 16) % 2 = 1}

\* C10: for a text that is a decimal or 0x-prefixed hexadecimal integer n,
\* parse_flags returns exactly the names whose bit is set in n; for a text
\* int() rejects it returns the empty set; "0x12" gives {SYN, ACK} and
\* "abc" gives {}.
C10_ParseFlags ==
    fpc = "returned" =>
        /\ (IsDecimalText(flags_str) \/ IsHexText(flags_str))
              => /\ PyInt(flags_str).ok
                 /\ Denotes(flags_str, PyInt(flags_str).v)
                 /\ flag_set = BitNames(PyInt(flags_str).v)
        /\ ~PyInt(flags_str).ok => flag_set = {}
        /\ flags_str = <<"0", "x", "1", "2">> => flag_set = {"SYN", "ACK"}
        /\ flags_str = <<"a", "b", "c">> => flag_set = {}

\* parse_flags has returned {SYN, ACK} for "0x12"
C10_Witness ==
    /\ fpc = "returned"
    /\ flags_str = <<"0", "x", "1", "2">>
    /\ flag_set = {"SYN", "ACK"}

\* ------------------------------------------------------------------------
\* The loop of process_tcp_fields as a function of the rows, for properties
\* that compare the pass with a pass over other rows

\* line 33 and the state of the loop before the first row
PassStart == [pc |-> "reading", connections |-> EmptyDict, order |-> << >>,
              end_cause |-> EmptyDict]

\* lines 39-75: one iteration of the loop on row
ProcessRow(st, row) ==
    IF st.pc # "reading" THEN st
    ELSE IF TooShort(row) THEN st
    ELSE IF UnpackFails(row) THEN [st EXCEPT !.pc = "raised"]
    ELSE IF ~FloatOf[row[1]].ok THEN st
    ELSE LET time_epoch == FloatOf[row[1]].v
             flags      == FlagsOf[row[6]]
             conn_id    == ConnId(row)
             cause      == Cause(RecordStart(st.connections, conn_id, time_epoch),
                                 conn_id, flags)
         IN  [st EXCEPT
                 !.connections = Track(st.connections, conn_id, time_epoch, flags),
                 !.order = IF conn_id \in DOMAIN st.connections THEN st.order
                           ELSE Append(st.order, conn_id),
                 !.end_cause = IF cause = "NONE" THEN st.end_cause
                               ELSE (conn_id :> cause) @@ st.end_cause]

\* lines 39-75 over the rows seq[i], seq[i+1], ...
RECURSIVE ProcessRows(_, _, _)
ProcessRows(st, seq, i) ==
    IF i > Len(seq) THEN st
    ELSE ProcessRows(ProcessRow(st, seq[i]), seq, i + 1)

\* the loop state of the pass itself
PassState == [pc |-> IF pc \in {"returned", "plotted"} THEN "reading" ELSE pc,
              connections |-> connections, order |-> order,
              end_cause |-> end_cause]

\* ------------------------------------------------------------------------
\* C11: processing the rows read so far followed by the same rows again
\* gives every identity the same start, end and end cause, and the same
\* exported intervals, as processing them once.
C11_ReingestIdempotent ==
    LET again == ProcessRows(PassStart, rows \o rows, 1)
    IN  /\ again = PassState
        /\ pc = "returned"
              => ExportFrom(again.connections, again.order, 1) = connection_data

\* K reset at 7.0 and then closed again by FIN+ACK at 12.5: the second pass
\* over the two records meets an end already set and leaves it
C11_Witness ==
    /\ pc = "returned"
    /\ rows = <<Row(Txt7, K, FlagsRst), Row(Txt12_5, K, FlagsFinAck)>>
    /\ ProcessRows(PassStart, rows \o rows, 1).end_cause = (K :> "RESET")
    /\ connection_data = <<<<FInt(7), FInt(0)>>>>

\* ------------------------------------------------------------------------
\* C12: a record whose timestamp does not denote a finite real number
\* ("nan", "inf", "-inf" included) is rejected, so no entry of the mapping
\* ever holds a start or an end that is not finite.
C12_TimesFinite ==
    \A c \in DOMAIN connections :
        \A f \in DOMAIN connections[c] : connections[c][f].k = "fin"

\* ------------------------------------------------------------------------
\* the rows read so far that carry the same source, destination and ports,
\* in the same direction, as row q
SameFlow(r, q) == Len(r) >= 6 /\ \A j \in 2..5 : r[j] = q[j]
RowsOfFlow(q) == SelectSeq(rows, LAMBDA r : SameFlow(r, q))

\* C13: the entry (start, end) of an identity after the rows read so far is
\* the entry a pass over that identity's rows alone gives it, however the
\* rows of other identities, the reverse direction included, are
\* interleaved with them.
C13_NoCrossKey ==
    \A i \in 1..Len(rows) :
        Len(rows[i]) >= 6 =>
            LET c     == ConnId(rows[i])
                alone == ProcessRows(PassStart, RowsOfFlow(rows[i]), 1)
            IN  /\ c \in DOMAIN connections <=> c \in DOMAIN alone.connections
                /\ c \in DOMAIN connections
                      => connections[c] = alone.connections[c]
                /\ c \in DOMAIN end_cause <=> c \in DOMAIN alone.end_cause
                /\ c \in DOMAIN end_cause => end_cause[c] = alone.end_cause[c]

\* an RST of the reverse direction came between the SYN and the FIN+ACK of
\* K: K is open until its own FIN+ACK, and the reverse direction has its
\* own entry
C13_Witness ==
    /\ rows = <<Row(Txt3, K, FlagsSyn), Row(Txt7, KRev, FlagsRst),
                Row(Txt12_5, K, FlagsFinAck)>>
    /\ connections[K] = ("start" :> FInt(3)) @@ ("end" :> FDyadic(25, -1))
    /\ connections[KRev] = ("start" :> FInt(7)) @@ ("end" :> FInt(7))
    /\ ProcessRows(PassStart, RowsOfFlow(rows[1]), 1).connections
          = (K :> connections[K])

\* ------------------------------------------------------------------------
\* the valid records of identity c came in non-decreasing timestamp order
InTimeOrder(c) ==
    \A i, j \in RecordsOf(c) : i < j => FLe(TimeAt(i), TimeAt(j))

\* C14: an identity whose valid records are processed in non-decreasing
\* timestamp order has end >= start whenever its end is set, and is
\* exported with a duration >= 0; an identity is exported with a negative
\* duration only if a closing record with a timestamp smaller than its
\* start was processed after its first record.
C14_OrderedNonNegative ==
    Alive =>
        /\ \A c \in DOMAIN connections :
              (InTimeOrder(c) /\ "end" \in DOMAIN connections[c])
              => FLe(connections[c]["start"], connections[c]["end"])
        /\ pc = "returned" =>
              \A n \in 1..Len(order) :
                  /\ InTimeOrder(order[n]) => FLe(FInt(0), connection_data[n][2])
                  /\ FLt(connection_data[n][2], FInt(0))
                        => \E i \in ClosesOf(order[n]) :
                              /\ i > Least(RecordsOf(order[n]))
                              /\ FLt(TimeAt(i), StartOf(order[n]))

\* ------------------------------------------------------------------------
\* send_data_at_rate (client_q3.py), called with any total_bytes in
\* 0..MaxTotal and any rate_bytes_per_second in -MaxRate..MaxRate

MaxTotal == 5
MaxRate == 3

\* a slice bound as Python's str slicing reads it on a string of n
\* characters: a negative bound counts from the end, and bounds are clipped
\* to 0..n
SliceIndex(i, n) ==
    IF i < 0 THEN (IF i + n < 0 THEN 0 ELSE i + n)
    ELSE IF i > n THEN n ELSE i

\* <<i, j>> with data[a:b] = the characters i+1..j of a string of n
\* characters (i = j for the empty string)
Slice(n, a, b) ==
    LET lo == SliceIndex(a, n)
        hi == SliceIndex(b, n)
    IN  <<lo, IF hi < lo THEN lo ELSE hi>>

\* len(chunk)
ChunkLen(c) == c[2] - c[1]

\* lines 38-40
CurrentChunkSize(sent, total, chunk_size) ==
    IF sent + chunk_size > total THEN total - sent ELSE chunk_size

InitSend ==
    /\ rows = << >>
    /\ pc = "reading"
    /\ connections = EmptyDict
    /\ order = << >>
    /\ end_cause = EmptyDict
    /\ connection_data = << >>
    /\ flags_str = << >>
    /\ flag_set = {}
    /\ fpc = "returned"
    /\ total_bytes \in 0..MaxTotal
    /\ rate_bytes_per_second \in (-MaxRate)..MaxRate
    /\ disable_nagle \in BOOLEAN
    /\ disable_delayed_ack \in BOOLEAN
    /\ bytes_sent = 0
    /\ chunk = << >>
    /\ client_socket = "none"
    /\ spc = "call"

\* line 7: socket.socket() raises (no free descriptor, say).  The call is
\* before the try: the exception leaves send_data_at_rate and there is no
\* socket
SocketFails ==
    /\ spc = "call"
    /\ spc' = "raised"
    /\ UNCHANGED <<sendArgs, bytes_sent, chunk, client_socket, passVars, flagVars>>

\* lines 7-11: setsockopt(TCP_NODELAY) raises.  It too is before the try:
\* the exception leaves send_data_at_rate, neither the handler nor the
\* finally clause runs and the socket stays open
NagleFails ==
    /\ spc = "call"
    /\ disable_nagle
    /\ client_socket' = "open"
    /\ spc' = "raised"
    /\ UNCHANGED <<sendArgs, bytes_sent, chunk, passVars, flagVars>>

\* lines 7-34: the socket is created, TCP_NODELAY is set when asked for,
\* and the socket connects.  Lines 19-27 (TCP_QUICKACK when
\* disable_delayed_ack) catch their own exception and only print
Connect ==
    /\ spc = "call"
    /\ client_socket' = "open"
    /\ bytes_sent' = 0
    /\ spc' = "loop"
    /\ UNCHANGED <<sendArgs, chunk, passVars, flagVars>>

\* lines 7-15 and 55-60: connect raises inside the try; the handler prints
\* and the finally clause closes the socket
ConnectFails ==
    /\ spc = "call"
    /\ client_socket' = "closed"
    /\ spc' = "failed"
    /\ UNCHANGED <<sendArgs, bytes_sent, chunk, passVars, flagVars>>

\* lines 36-47: one iteration of the send loop
SendChunk ==
    /\ spc = "loop"
    /\ bytes_sent < total_bytes
    /\ LET current_chunk_size ==
               CurrentChunkSize(bytes_sent, total_bytes, rate_bytes_per_second)
           c == Slice(total_bytes, bytes_sent, bytes_sent + current_chunk_size)
       IN  /\ chunk' = c
           /\ bytes_sent' = bytes_sent + ChunkLen(c)
    /\ UNCHANGED <<sendArgs, client_socket, spc, passVars, flagVars>>

\* lines 43 and 55-60: sendall raises
SendFails ==
    /\ spc = "loop"
    /\ bytes_sent < total_bytes
    /\ client_socket' = "closed"
    /\ spc' = "failed"
    /\ UNCHANGED <<sendArgs, bytes_sent, chunk, passVars, flagVars>>

\* lines 36 and 49-60: the loop is left, the response is received and the
\* socket is closed
Finish ==
    /\ spc = "loop"
    /\ ~(bytes_sent < total_bytes)
    /\ client_socket' = "closed"
    /\ spc' = "done"
    /\ UNCHANGED <<sendArgs, bytes_sent, chunk, passVars, flagVars>>

\* lines 52 and 55-60: recv or decode raises
RecvFails ==
    /\ spc = "loop"
    /\ ~(bytes_sent < total_bytes)
    /\ client_socket' = "closed"
    /\ spc' = "failed"
    /\ UNCHANGED <<sendArgs, bytes_sent, chunk, passVars, flagVars>>

NextSend ==
    \/ SocketFails
    \/ NagleFails
    \/ Connect
    \/ ConnectFails
    \/ SendChunk
    \/ SendFails
    \/ Finish
    \/ RecvFails

SpecSend == InitSend /\ [][NextSend]_vars

\* C15: for every total_bytes >= 0 and every rate_bytes_per_second the
\* send loop keeps 0 <= bytes_sent <= total_bytes, every chunk it sends is
\* non-empty (so each iteration advances bytes_sent and the loop ends) and
\* at most rate_bytes_per_second long, every chunk is the slice of the data
\* that follows the previous one, bytes_sent = total_bytes when the loop
\* is left, and no socket is left open when the function is left, after
\* an error too.
C15_SendLoop ==
    /\ 0 <= bytes_sent /\ bytes_sent <= total_bytes
    /\ chunk # << >>
          => /\ ChunkLen(chunk) >= 1
             /\ ChunkLen(chunk) <= rate_bytes_per_second
             /\ chunk[2] = bytes_sent
    /\ spc = "done" => bytes_sent = total_bytes
    /\ spc \in {"done", "failed", "raised"} => client_socket # "open"

====
